---- MODULE Spec2Model ----
(***************************************************************************)
(* Model of batch-crop-usdt-pairs-v2.py: main() lists a directory, keeps   *)
(* the PNG entries that are not already cropped, and calls crop_file on    *)
(* each of them in sorted order.                                           *)
(*                                                                         *)
(* File names are sequences of one-character strings, so that lower(),     *)
(* endswith(), os.path.splitext() and the ordering used by sorted() are    *)
(* computed character by character as Python computes them.  The empty     *)
(* string "" is the empty sequence << >>.                                  *)
(***************************************************************************)
EXTENDS Integers, Sequences, FiniteSets, TLC

\* Number of times the tool is invoked on the same directory.
MaxRuns == 2
\* Number of encode/write faults the environment injects over all invocations.
MaxFaults == 1

----------------------------------------------------------------------------
\* Characters and Python's str operations

UpperAlpha == <<"A","B","C","D","E","F","G","H","I","J","K","L","M",
                "N","O","P","Q","R","S","T","U","V","W","X","Y","Z">>
LowerAlpha == <<"a","b","c","d","e","f","g","h","i","j","k","l","m",
                "n","o","p","q","r","s","t","u","v","w","x","y","z">>

\* ord(c) for the characters that occur in the modelled names
Ord(c) ==
    IF c = "." THEN 46
    ELSE IF c = "_" THEN 95
    ELSE IF \E k \in 1..26 : UpperAlpha[k] = c
         THEN 64 + (CHOOSE k \in 1..26 : UpperAlpha[k] = c)
    ELSE 96 + (CHOOSE k \in 1..26 : LowerAlpha[k] = c)

\* str.lower()
LowerChar(c) ==
    IF \E k \in 1..26 : UpperAlpha[k] = c
    THEN LowerAlpha[CHOOSE k \in 1..26 : UpperAlpha[k] = c]
    ELSE c
lower(s) == [k \in 1..Len(s) |-> LowerChar(s[k])]

\* str.endswith(suffix)
endswith(s, suffix) ==
    /\ Len(suffix) <= Len(s)
    /\ SubSeq(s, Len(s) - Len(suffix) + 1, Len(s)) = suffix

\* s < t for Python str: lexicographic on code points, a proper prefix is smaller
StrLess(s, t) ==
    \E k \in 1..(Len(t)) :
        /\ k <= Len(s) + 1
        /\ \A j \in 1..(k - 1) : s[j] = t[j]
        /\ IF k = Len(s) + 1 THEN TRUE ELSE Ord(s[k]) < Ord(t[k])

\* sorted(S): the ascending sequence of the elements of S
\* (the same elements in descending order)
RECURSIVE sorted_descending(_)
sorted_descending(S) ==
    IF S = {} THEN << >>
    ELSE LET m == CHOOSE x \in S : \A y \in S \ {x} : StrLess(y, x)
         IN  <<m>> \o sorted_descending(S \ {m})
RECURSIVE sorted(_)
sorted(S) ==
    IF S = {} THEN << >>
    ELSE LET m == CHOOSE x \in S : \A y \in S \ {x} : StrLess(x, y)
         IN  <<m>> \o sorted(S \ {m})

DotPng     == <<".","p","n","g">>
CroppedPng == <<"_","c","r","o","p","p","e","d",".","p","n","g">>

\* os.path.splitext(p) for a path whose last component is p: the extension
\* starts at the last dot, unless only dots precede that dot
LastDot(p) ==
    IF \E k \in 1..Len(p) : p[k] = "."
    THEN CHOOSE k \in 1..Len(p) : p[k] = "." /\ \A j \in (k + 1)..Len(p) : p[j] # "."
    ELSE 0
splitext(p) ==
    LET d == LastDot(p)
    IN  IF d > 0 /\ \E j \in 1..(d - 1) : p[j] # "."
        THEN <<SubSeq(p, 1, d - 1), SubSeq(p, d, Len(p))>>
        ELSE <<p, << >> >>

----------------------------------------------------------------------------
\* Program constants

CROP == [left |-> 40, top |-> 130, right |-> 440, bottom |-> 100]
EXPECTED_SIZE == <<1920, 1080>>

----------------------------------------------------------------------------
\* File system contents

\* A decodable image of w x h pixels.  box and of record, for an image
\* written by crop_file, the rectangle it was cut from and the source name.
Img(w, h) == [kind |-> "img", w |-> w, h |-> h, box |-> <<0, 0, 0, 0>>, of |-> << >>]
\* A file that Image.open cannot decode
Corrupt == [kind |-> "corrupt", w |-> 0, h |-> 0, box |-> <<0, 0, 0, 0>>, of |-> << >>]
\* A file opened for writing whose encoding did not complete
Partial == [kind |-> "partial", w |-> 0, h |-> 0, box |-> <<0, 0, 0, 0>>, of |-> << >>]
\* No file at that path
Absent == [kind |-> "absent", w |-> 0, h |-> 0, box |-> <<0, 0, 0, 0>>, of |-> << >>]
\* A file that is not an image at all
Other == [kind |-> "other", w |-> 0, h |-> 0, box |-> <<0, 0, 0, 0>>, of |-> << >>]
\* The output of an earlier run of the tool
OldOutput == [kind |-> "img", w |-> 1440, h |-> 850, box |-> <<40, 130, 1480, 980>>,
              of |-> <<"o","l","d">>]

\* Image sizes of the screenshots: the expected one, the smallest one with a
\* non-empty crop region, one with a crop region of zero width, one with a
\* crop region of negative height
Sizes == {<<1920, 1080>>, <<481, 231>>, <<480, 1080>>, <<1920, 100>>}

a_png         == <<"a",".","p","n","g">>
a_PNG         == <<"a",".","P","N","G">>
dot_png       == <<".","p","n","g">>
a_cropped_png == <<"a","_","c","r","o","p","p","e","d",".","p","n","g">>
a_CROPPED_PNG == <<"a","_","C","R","O","P","P","E","D",".","P","N","G">>
a_txt         == <<"a",".","t","x","t">>

ScreenshotNames == {a_png, a_PNG, dot_png}
ExtraNames      == {a_cropped_png, a_CROPPED_PNG, a_txt}

ExtraContent(n) == IF n = a_txt THEN Other ELSE OldOutput

\* The directories the tool may be started on
Directories ==
    { [n \in (DOMAIN shots) \cup extra |->
          IF n \in DOMAIN shots THEN shots[n] ELSE ExtraContent(n)] :
      shots \in UNION { [S -> {Img(sz[1], sz[2]) : sz \in Sizes} \cup {Corrupt}] :
                        S \in SUBSET ScreenshotNames },
      extra \in SUBSET ExtraNames }

----------------------------------------------------------------------------
\* State

VARIABLES
    targetIsDir,  \* os.path.isdir(target)
    fs,           \* the target directory: file name -> content
    dir0,         \* the directory as it was before the first run
    pc,           \* "start", "loop" or "exited"
    run,          \* number of the current invocation
    files,        \* main's list of candidates (os.listdir order is not kept)
    queue,        \* sorted(files), evaluated when the for loop starts
    i,            \* position of the for loop in queue
    processed,    \* main's counter
    log,          \* lines printed by the current invocation
    status,       \* exit status of the current invocation, -1 while it runs
    attempts,     \* one record per crop_file call of the current invocation
    cands,        \* the candidate set of every invocation that listed the directory
    written,      \* every path opened for writing so far
    faults        \* number of encode/write faults injected so far

vars == <<targetIsDir, fs, dir0, pc, run, files, queue, i, processed, log,
          status, attempts, cands, written, faults>>

\* the content at a path, Absent when there is no such file
At(dir, path) == IF path \in DOMAIN dir THEN dir[path] ELSE Absent

Line(tag, name, out, a, b) == [tag |-> tag, name |-> name, out |-> out, a |-> a, b |-> b]

\* fs with path holding content c
Put(dir, path, c) == [n \in (DOMAIN dir) \cup {path} |-> IF n = path THEN c ELSE dir[n]]

----------------------------------------------------------------------------
\* crop_file

\* out_path = f"{base}_cropped.png"
\* (variant: the suffix _cropped left out)
out_path_keeps_ext(src_path) == splitext(src_path)[1] \o DotPng
out_path(src_path) == splitext(src_path)[1] \o CroppedPng

\* the box handed to img.crop for an image of w x h pixels
\* (variants: right and lower edge without the offset of the left and top
\* margin; width and height without the right and bottom margin)
CropBox_no_left(w, h) ==
    LET width  == w - CROP.left - CROP.right
        height == h - CROP.top - CROP.bottom
    IN  <<CROP.left, CROP.top, width, height>>
CropBox_no_right(w, h) ==
    LET width  == w - CROP.left
        height == h - CROP.top
    IN  <<CROP.left, CROP.top, CROP.left + width, CROP.top + height>>
CropBox(w, h) ==
    LET left   == CROP.left
        top    == CROP.top
        width  == w - CROP.left - CROP.right
        height == h - CROP.top - CROP.bottom
    IN  <<left, top, left + width, top + height>>

Max0(x) == IF x < 0 THEN 0 ELSE x

\* img.crop(box).  Pillow releases differ on a box whose right edge is left of
\* its left edge (or lower above upper): the later ones raise ValueError
\* (strict), the earlier ones clamp the size to 0.  A box of zero width or
\* height yields an image of zero width or height in all of them.
ImageCrop(img, box, strict, src) ==
    IF strict /\ (box[3] < box[1] \/ box[4] < box[2])
    THEN [raised |-> TRUE, img |-> Corrupt]
    ELSE [raised |-> FALSE,
          img |-> [kind |-> "img", w |-> Max0(box[3] - box[1]),
                   h |-> Max0(box[4] - box[2]), box |-> box, of |-> src]]

\* out.save(path).  io is "write" when encoding or writing meets an I/O fault.
\* Pillow opens the file with mode w+b before it encodes, and the encoder
\* refuses an image without pixels.  After a failed save a file that save
\* itself created is removed by the later Pillow releases (cleanup) and left
\* behind by the earlier ones; a file that existed before stays, truncated.
ImageSave(dir, out, path, io, cleanup) ==
    IF out.w = 0 \/ out.h = 0 \/ io = "write"
    THEN [raised |-> TRUE, opened |-> TRUE,
          fs |-> IF path \notin DOMAIN dir /\ cleanup THEN dir
                 ELSE Put(dir, path, Partial)]
    ELSE [raised |-> FALSE, opened |-> TRUE, fs |-> Put(dir, path, out)]

\* crop_file(src_path) on directory dir: the value returned (<< >> for ""),
\* the lines printed, the directory afterwards, whether out_path was opened
crop_file(dir, src_path, io, strict, cleanup) ==
    LET out == out_path(src_path)
        err == Line("ERROR", src_path, << >>, 0, 0)
    IN  IF dir[src_path].kind # "img"
        THEN [ret |-> << >>, lines |-> <<err>>, fs |-> dir, opened |-> FALSE]
        ELSE
        LET img  == dir[src_path]
            warn == IF <<img.w, img.h>> # EXPECTED_SIZE
                    THEN <<Line("WARN", src_path, << >>, img.w, img.h)>>
                    ELSE << >>
            c    == ImageCrop(img, CropBox(img.w, img.h), strict, src_path)
            s    == ImageSave(dir, c.img, out, io, cleanup)
        IN  IF c.raised
            THEN [ret |-> << >>, lines |-> warn \o <<err>>, fs |-> dir,
                  opened |-> FALSE]
            ELSE IF s.raised
            THEN [ret |-> << >>, lines |-> warn \o <<err>>, fs |-> s.fs,
                  opened |-> s.opened]
            ELSE [ret |-> out,
                  lines |-> warn \o <<Line("CROPPED", src_path, out, 0, 0)>>,
                  fs |-> s.fs, opened |-> TRUE]

----------------------------------------------------------------------------
\* main

\* the filter of the list comprehension
\* (variants: without lower(); without the exclusion of cropped files)
IsCandidate_case_sensitive(f) ==
    endswith(f, DotPng) /\ ~ endswith(f, CroppedPng)
IsCandidate_keeps_cropped(f) ==
    endswith(lower(f), DotPng)
IsCandidate(f) ==
    endswith(lower(f), DotPng) /\ ~ endswith(lower(f), CroppedPng)

\* if out: processed += 1
\* (variant: counted whatever crop_file returned)
Tally_counts_all(n, out) == n + 1
Tally(n, out) == IF out # << >> THEN n + 1 ELSE n

Init ==
    /\ targetIsDir \in BOOLEAN
    /\ fs \in (IF targetIsDir THEN Directories ELSE {<< >>})
    /\ dir0 = fs
    /\ pc = "start"
    /\ run = 1
    /\ files = {}
    /\ queue = << >>
    /\ i = 0
    /\ processed = 0
    /\ log = << >>
    /\ status = -1
    /\ attempts = << >>
    /\ cands = << >>
    /\ written = {}
    /\ faults = 0

\* lines 42-44: the target is not a directory
NotADirectory ==
    /\ pc = "start"
    /\ ~ targetIsDir
    /\ log' = Append(log, Line("ERROR_TARGET", << >>, << >>, 0, 0))
    /\ status' = 1
    /\ pc' = "exited"
    /\ UNCHANGED <<targetIsDir, fs, dir0, run, files, queue, i, processed,
                   attempts, cands, written, faults>>

\* lines 46-52: the directory holds no candidate
NoFiles ==
    /\ pc = "start"
    /\ targetIsDir
    /\ LET found == {f \in DOMAIN fs : IsCandidate(f)}
       IN  /\ found = {}
           /\ files' = found
           /\ cands' = Append(cands, found)
    /\ log' = Append(log, Line("INFO", << >>, << >>, 0, 0))
    /\ status' = 0
    /\ pc' = "exited"
    /\ UNCHANGED <<targetIsDir, fs, dir0, run, queue, i, processed, attempts,
                   written, faults>>

\* lines 46-54: the directory holds candidates; the loop starts
Discover ==
    /\ pc = "start"
    /\ targetIsDir
    /\ LET found == {f \in DOMAIN fs : IsCandidate(f)}
       IN  /\ found # {}
           /\ files' = found
           /\ cands' = Append(cands, found)
           /\ queue' = sorted(found)
    /\ processed' = 0
    /\ i' = 1
    /\ pc' = "loop"
    /\ UNCHANGED <<targetIsDir, fs, dir0, run, log, status, attempts, written,
                   faults>>

\* lines 55-59: one iteration of the loop
CropStep ==
    /\ pc = "loop"
    /\ i <= Len(queue)
    /\ \E io \in {"ok", "write"}, strict \in BOOLEAN, cleanup \in BOOLEAN :
         LET f == queue[i]
             r == crop_file(fs, f, io, strict, cleanup)
         IN  /\ io = "write" => faults < MaxFaults /\ r.opened
             /\ faults' = IF io = "write" THEN faults + 1 ELSE faults
             /\ fs' = r.fs
             /\ log' = log \o r.lines
             /\ processed' = Tally(processed, r.ret)
             /\ attempts' = Append(attempts,
                                   [name |-> f, ret |-> r.ret, io |-> io,
                                    src |-> fs[f], srcPost |-> At(r.fs, f),
                                    outPre |-> At(fs, out_path(f)),
                                    outPost |-> At(r.fs, out_path(f))])
             /\ written' = IF r.opened THEN written \cup {out_path(f)} ELSE written
    /\ i' = i + 1
    /\ UNCHANGED <<targetIsDir, dir0, pc, run, files, queue, status, cands>>

\* line 61: the summary; main returns and the interpreter exits with status 0
\* (variant: a non-zero status when a file failed)
Done_fails_on_errors ==
    /\ pc = "loop"
    /\ i > Len(queue)
    /\ log' = Append(log, Line("DONE", << >>, << >>, processed, Cardinality(files)))
    /\ status' = IF processed < Cardinality(files) THEN 1 ELSE 0
    /\ pc' = "exited"
    /\ UNCHANGED <<targetIsDir, fs, dir0, run, files, queue, i, processed,
                   attempts, cands, written, faults>>
Done ==
    /\ pc = "loop"
    /\ i > Len(queue)
    /\ log' = Append(log, Line("DONE", << >>, << >>, processed, Cardinality(files)))
    /\ status' = 0
    /\ pc' = "exited"
    /\ UNCHANGED <<targetIsDir, fs, dir0, run, files, queue, i, processed,
                   attempts, cands, written, faults>>

\* the tool is started again on the same target
Rerun ==
    /\ pc = "exited"
    /\ run < MaxRuns
    /\ run' = run + 1
    /\ pc' = "start"
    /\ files' = {}
    /\ queue' = << >>
    /\ i' = 0
    /\ processed' = 0
    /\ log' = << >>
    /\ status' = -1
    /\ attempts' = << >>
    /\ UNCHANGED <<targetIsDir, fs, dir0, cands, written, faults>>

\* One invocation of the tool
Next ==
    \/ NotADirectory
    \/ NoFiles
    \/ Discover
    \/ CropStep
    \/ Done

Spec == Init /\ [][Next]_vars

\* Repeated invocations on the same target; the directory is one without
\* the entry ".png"
InitRerun ==
    /\ Init
    /\ dot_png \notin DOMAIN fs

NextRerun ==
    \/ NotADirectory
    \/ NoFiles
    \/ Discover
    \/ CropStep
    \/ Done
    \/ Rerun

SpecRerun == InitRerun /\ [][NextRerun]_vars

----------------------------------------------------------------------------
\* Properties

Lines(tag) == {k \in 1..Len(log) : log[k].tag = tag}
LinesFor(tag, name) == {k \in Lines(tag) : log[k].name = name}
Attempted == {attempts[k].name : k \in 1..Len(attempts)}
Succeeded == {k \in 1..Len(attempts) : attempts[k].ret # << >>}
Failed == {k \in 1..Len(attempts) : attempts[k].ret = << >>}
Ascending(q) == \A j, k \in 1..Len(q) : j < k => StrLess(q[j], q[k])

\* C1: a failure of crop_file on one candidate is isolated.  The candidates
\* handed to crop_file so far are the first ones of the discovered candidates
\* in ascending order, each handed over once; while candidates remain the
\* loop stands at one not yet attempted, and right after a failure its next
\* step (the next candidate, or the summary) can be taken; and a run
\* that discovered candidates ends only after every one of them was attempted,
\* with the DONE line as its last line.
C1_FailureIsolated ==
    /\ Attempted \subseteq files
    /\ Ascending([k \in 1..Len(attempts) |-> attempts[k].name])
    /\ \A f \in files \ Attempted : \A g \in Attempted : StrLess(g, f)
    /\ pc = "loop" /\ Attempted # files => i <= Len(queue) /\ queue[i] \notin Attempted
    /\ pc = "loop" /\ Len(attempts) > 0 /\ attempts[Len(attempts)].ret = << >> =>
          IF Attempted # files THEN ENABLED CropStep ELSE ENABLED Done
    /\ pc = "exited" /\ files # {} =>
          /\ Attempted = files
          /\ Len(attempts) = Cardinality(files)
          /\ log # << >> /\ log[Len(log)].tag = "DONE"

\* a finished run of three candidates whose first failed and whose last succeeded
C1_Witness ==
    /\ pc = "exited"
    /\ Len(attempts) = 3
    /\ attempts[1].ret = << >>
    /\ attempts[3].ret # << >>
    /\ log[Len(log)].tag = "DONE"

C3_Summary ==
    /\ Cardinality(Lines("DONE")) <= 1
    /\ pc = "exited" /\ files # {} => Lines("DONE") # {}
    /\ \A k \in Lines("DONE") :
          /\ k = Len(log)
          /\ pc = "exited"
          /\ Attempted = files
          /\ Len(attempts) = Cardinality(files)
          /\ log[k].b = Cardinality(files)
          /\ log[k].a = Cardinality(Succeeded)
          /\ log[k].a = Cardinality(Lines("CROPPED"))
          /\ 0 <= log[k].a /\ log[k].a <= log[k].b
          /\ log[k].b - log[k].a = Cardinality(Lines("ERROR"))

\* a summary that reports some, but not all, candidates as cropped
C3_Witness ==
    /\ pc = "exited"
    /\ \E k \in Lines("DONE") : 0 < log[k].a /\ log[k].a < log[k].b

\* C4: discovery yields exactly the entries whose lowercased name ends with
\* .png and not with _cropped.png (of the names modelled: a.png, a.PNG and
\* .png), the loop takes them in ascending order, and neither an already
\* cropped PNG nor a non-PNG entry is ever handed to crop_file.
C4_Discovery ==
    /\ pc \in {"loop", "exited"} /\ targetIsDir =>
          /\ files = (DOMAIN dir0) \cap ScreenshotNames
          /\ files = (DOMAIN dir0) \ ExtraNames
    /\ pc = "loop" =>
          /\ {queue[k] : k \in 1..Len(queue)} = files
          /\ Len(queue) = Cardinality(files)
          /\ Ascending(queue)
    /\ \A k \in 1..Len(attempts) :
          /\ attempts[k].name \in ScreenshotNames
          /\ attempts[k].name \notin ExtraNames
          /\ attempts[k].name = queue[k]

\* a finished run on a directory of three eligible PNGs, two cropped PNGs and a
\* text file
C4_Witness ==
    /\ pc = "exited"
    /\ ScreenshotNames \cup ExtraNames \subseteq DOMAIN dir0
    /\ Len(attempts) = 3

\* C5: every invocation on the same directory discovers the candidate set the
\* first invocation discovered: what the earlier invocations wrote is not a
\* candidate.
C5_Idempotent ==
    \A r \in 1..Len(cands) : cands[r] = cands[1]

\* a second discovery after a first invocation that created an output file
C5_Witness ==
    /\ Len(cands) = 2
    /\ cands[1] # {}
    /\ (DOMAIN fs) \ (DOMAIN dir0) # {}
    /\ \E p \in written : p \in DOMAIN fs /\ p \notin DOMAIN dir0

\* C6: for a decodable image of width W > 480 and height H > 230 whose output
\* is written without an I/O fault, crop_file returns the output path and the
\* output holds the (W-480) x (H-230) pixels of the rectangle
\* (40, 130, W-440, H-100) of that image; a WARN line names the file exactly
\* when (W, H) is not (1920, 1080), so 1920x1080 gives 1440x850 unwarned.
C6_CropGeometry ==
    \A k \in 1..Len(attempts) :
        LET a == attempts[k]
            W == a.src.w
            H == a.src.h
        IN  a.src.kind = "img" /\ W > 480 /\ H > 230 /\ a.io = "ok" =>
              /\ a.ret # << >>
              /\ LinesFor("CROPPED", a.name) # {}
              /\ a.outPost.kind = "img"
              /\ a.outPost.w = W - 480
              /\ a.outPost.h = H - 230
              /\ a.outPost.box = <<40, 130, W - 440, H - 100>>
              /\ a.outPost.of = a.name
              /\ LinesFor("WARN", a.name) # {} <=> <<W, H>> # <<1920, 1080>>
              /\ <<W, H>> = <<1920, 1080>> =>
                    a.outPost.w = 1440 /\ a.outPost.h = 850

\* a run that cropped a 1920x1080 image without a warning and a 481x231 image
\* with one
C6_Witness ==
    \E j, k \in 1..Len(attempts) :
        /\ attempts[j].src = Img(1920, 1080)
        /\ attempts[j].ret # << >>
        /\ attempts[j].outPost.w = 1440
        /\ LinesFor("WARN", attempts[j].name) = {}
        /\ attempts[k].src = Img(481, 231)
        /\ attempts[k].ret # << >>
        /\ LinesFor("WARN", attempts[k].name) # {}

\* C7: for an image of width W <= 480 or height H <= 230 crop_file fails: it
\* returns the empty result, prints an ERROR line and no CROPPED line for the
\* file, and the file is not counted in processed nor in the summary.
C7_DegenerateFails ==
    /\ \A k \in 1..Len(attempts) :
          LET a == attempts[k]
          IN  a.src.kind = "img" /\ (a.src.w <= 480 \/ a.src.h <= 230) =>
                /\ a.ret = << >>
                /\ LinesFor("ERROR", a.name) # {}
                /\ LinesFor("CROPPED", a.name) = {}
    /\ processed =
          Cardinality({k \in 1..Len(attempts) :
                          attempts[k].src.kind = "img"
                          /\ attempts[k].src.w > 480 /\ attempts[k].src.h > 230
                          /\ attempts[k].ret # << >>})
    /\ \A d \in Lines("DONE") : log[d].a = processed

\* a finished run in which an image with a crop region of exactly zero width
\* failed while another image was cropped
C7_Witness ==
    /\ pc = "exited"
    /\ \E j, k \in 1..Len(attempts) :
          /\ attempts[j].src = Img(480, 1080)
          /\ attempts[j].ret = << >>
          /\ attempts[k].ret # << >>
    /\ \E d \in Lines("DONE") : log[d].a = 1

\* C8: any two distinct candidates of a run derive distinct output paths, so
\* the number of distinct output files written equals the succeeded count.
C8_IndependentNames ==
    /\ \A f, g \in files : f # g => out_path(f) # out_path(g)
    /\ pc = "exited" =>
          Cardinality({attempts[k].ret : k \in Succeeded}) = processed

\* C9: every path opened for writing ends in _cropped.png and is no candidate;
\* every candidate holds what it held before the run; and an entry of the
\* directory whose content changed is a pre-existing *_cropped.png file.
C9_InputsUntouched ==
    /\ \A p \in written :
          /\ endswith(p, CroppedPng)
          /\ p \notin files
          /\ p \notin ScreenshotNames
    /\ \A f \in files : f \in DOMAIN fs /\ f \in DOMAIN dir0 /\ fs[f] = dir0[f]
    /\ \A k \in 1..Len(attempts) : attempts[k].srcPost = attempts[k].src
    /\ \A f \in DOMAIN dir0 :
          f \notin DOMAIN fs \/ fs[f] # dir0[f] =>
              endswith(lower(f), CroppedPng) /\ f \in written

\* a finished run that replaced a pre-existing a_cropped.png by a new crop
C9_Witness ==
    /\ pc = "exited"
    /\ \E k \in Succeeded :
          /\ attempts[k].outPre = OldOutput
          /\ attempts[k].outPost # OldOutput
          /\ attempts[k].ret \in DOMAIN dir0

\* C10: whenever crop_file fails for a candidate, the file at the derived
\* output path is exactly as it was before the attempt: not created, not
\* truncated, not partially written, and a pre-existing output is not altered.
C10_FailureLeavesOutput ==
    \A k \in Failed : attempts[k].outPost = attempts[k].outPre

====
